---- MODULE Spec2Model ----
(***************************************************************************)
(* xhtmlchardet: detect(reader, hint), modelled from src/lib.rs.           *)
(*                                                                         *)
(* Bytes are naturals 0..255.  A Rust String is the sequence of its code   *)
(* points.  Option<T> is a sequence of length 0 (None) or 1 (Some).        *)
(* Rust indexes from 0, TLA+ sequences from 1: byte offset k of a slice is *)
(* element k + 1 here.                                                     *)
(***************************************************************************)
EXTENDS Naturals, Integers, Sequences, FiniteSets, TLC

VARIABLES
    stream,             \* the bytes the source holds, from offset 0
    hint,               \* Option<String>: the caller's hint
    pos,                \* the reader's cursor: bytes of stream consumed so far
    reads,              \* what each read call of this invocation returned
    pc,                 \* position inside detect
    first_four_bytes,   \* [0u8; 4], filled by the first read
    possible_encoding,  \* Option<Descriptor>
    buf,                \* [0u8; 512], filled by the second read
    declared,           \* Option<String>: what search(..).or_else(search(..)) gave
    candidates,         \* Vec<String>
    result,             \* what detect returned
    calls,              \* 1 in the first invocation of detect, 2 in the second
    prev                \* what the previous invocation returned

vars == <<stream, hint, pos, reads, pc, first_four_bytes, possible_encoding,
          buf, declared, candidates, result, calls, prev>>

---------------------------------------------------------------------------
(* Bounds of the model *)

\* A read may fall short of what it could deliver by up to this many bytes.
MaxShortfall == 2
\* A single byte of a stream is replaced only this close to one of its ends.
MaxPokeEdge == 5

---------------------------------------------------------------------------
(* Text *)

AsciiTable ==
    <<" ","!","\"","#","$","%","&","'","(",")","*","+",",","-",".","/",
      "0","1","2","3","4","5","6","7","8","9",":",";","<","=",">","?",
      "@","A","B","C","D","E","F","G","H","I","J","K","L","M","N","O",
      "P","Q","R","S","T","U","V","W","X","Y","Z","[","\\","]","^","_",
      "grave","a","b","c","d","e","f","g","h","i","j","k","l","m","n","o",
      "p","q","r","s","t","u","v","w","x","y","z","{","|","}","~">>

\* The code of a printable ASCII character (0x20 is the table's first entry;
\* 0x60 is spelled out, and no text of the model uses it).
Chr(c) == 31 + (CHOOSE i \in 1..Len(AsciiTable) : AsciiTable[i] = c)

\* The code points (= bytes) of an ASCII string, given character by character.
Str(cs) == [i \in 1..Len(cs) |-> Chr(cs[i])]

None == <<>>
Some(x) == <<x>>
unwrap_or(opt, default) == IF opt = None THEN default ELSE opt[1]

Min(S) == CHOOSE x \in S : \A y \in S : x <= y

---------------------------------------------------------------------------
(* Descriptors *)

EightBit == 8
SixteenBit == 16
ThirtyTwoBit == 32

Descriptor(f, w, o) == [flavour |-> f, width |-> w, order |-> o]

UCS_4_BE == Descriptor("UCS", ThirtyTwoBit, "BigEndian")
UCS_4_LE == Descriptor("UCS", ThirtyTwoBit, "LittleEndian")
\* A slip in the table: the 2143 order declared with the 16-bit width.
UCS_4_2143_SixteenBit == Descriptor("UCS", SixteenBit, "Unusual2143")

UCS_4_2143 == Descriptor("UCS", ThirtyTwoBit, "Unusual2143")
UCS_4_3412 == Descriptor("UCS", ThirtyTwoBit, "Unusual3412")
UTF_16_BE == Descriptor("UTF", SixteenBit, "BigEndian")
UTF_16_LE == Descriptor("UTF", SixteenBit, "LittleEndian")
UTF_8 == Descriptor("UTF", EightBit, "NotApplicable")
EBCDIC == Descriptor("EBCDIC", EightBit, "NotApplicable")
ASCII_32BIT_BE == Descriptor("Unknown", ThirtyTwoBit, "BigEndian")
ASCII_32BIT_LE == Descriptor("Unknown", ThirtyTwoBit, "LittleEndian")
ASCII_32BIT_2143 == Descriptor("Unknown", ThirtyTwoBit, "Unusual2143")
ASCII_32BIT_3412 == Descriptor("Unknown", ThirtyTwoBit, "Unusual3412")
ASCII_16BIT_BE == Descriptor("Unknown", SixteenBit, "BigEndian")
ASCII_16BIT_LE == Descriptor("Unknown", SixteenBit, "LittleEndian")
ASCII_8BIT == Descriptor("ASCII", EightBit, "NotApplicable")

\* match *bom { ... }: the arms in the order the code lists them.
detect_byte_order_mark(bom) ==
    LET a == bom[1]
        b == bom[2]
        c == bom[3]
        d == bom[4]
    IN  IF <<a, b, c, d>> = <<0, 0, 254, 255>> THEN Some(UCS_4_BE)
        ELSE IF <<a, b, c, d>> = <<255, 254, 0, 0>> THEN Some(UCS_4_LE)
        ELSE IF <<a, b, c, d>> = <<0, 0, 255, 254>> THEN Some(UCS_4_2143)
        ELSE IF <<a, b, c, d>> = <<254, 255, 0, 0>> THEN Some(UCS_4_3412)
        ELSE IF <<a, b>> = <<254, 255>> /\ (c > 0 \/ d > 0) THEN Some(UTF_16_BE)
        ELSE IF <<a, b>> = <<255, 254>> /\ (c > 0 \/ d > 0) THEN Some(UTF_16_LE)
        ELSE IF <<a, b, c>> = <<239, 187, 191>> THEN Some(UTF_8)
        ELSE IF <<a, b, c, d>> = <<0, 0, 0, 60>> THEN Some(ASCII_32BIT_BE)
        ELSE IF <<a, b, c, d>> = <<60, 0, 0, 0>> THEN Some(ASCII_32BIT_LE)
        ELSE IF <<a, b, c, d>> = <<0, 0, 60, 0>> THEN Some(ASCII_32BIT_2143)
        ELSE IF <<a, b, c, d>> = <<0, 60, 0, 0>> THEN Some(ASCII_32BIT_3412)
        ELSE IF <<a, b, c, d>> = <<0, 60, 0, 63>> THEN Some(ASCII_16BIT_BE)
        ELSE IF <<a, b, c, d>> = <<60, 0, 63, 0>> THEN Some(ASCII_16BIT_LE)
        ELSE IF <<a, b, c, d>> = <<60, 63, 120, 109>> THEN Some(ASCII_8BIT)
        ELSE IF <<a, b, c, d>> = <<76, 111, 167, 148>> THEN Some(EBCDIC)
        ELSE None

---------------------------------------------------------------------------
(* UTF-8 decoding, as std::str::from_utf8 and String::from_utf8_lossy do it *)

REPLACEMENT_CHARACTER == 65533

IsCont(b) == b >= 128 /\ b <= 191

\* The byte at 1-based position i, or 0 past the end (std's safe_get).
safe_get(v, i) == IF i >= 1 /\ i <= Len(v) THEN v[i] ELSE 0

\* The range the second byte of a sequence led by b0 must lie in.
SecondOk(b0, b1) ==
    IF b0 = 224 THEN b1 >= 160 /\ b1 <= 191
    ELSE IF b0 = 237 THEN b1 >= 128 /\ b1 <= 159
    ELSE IF b0 = 240 THEN b1 >= 144 /\ b1 <= 191
    ELSE IF b0 = 244 THEN b1 >= 128 /\ b1 <= 143
    ELSE IsCont(b1)

\* The chunk that starts at position i: a decoded character (ok), or the
\* maximal invalid prefix of one (not ok), which lossy decoding replaces by
\* one U+FFFD.
Chunk(v, i) ==
    LET b0 == v[i]
        b1 == safe_get(v, i + 1)
        b2 == safe_get(v, i + 2)
        b3 == safe_get(v, i + 3)
        bad(n) == [len |-> n, cp |-> REPLACEMENT_CHARACTER, ok |-> FALSE]
    IN  IF b0 < 128 THEN [len |-> 1, cp |-> b0, ok |-> TRUE]
        ELSE IF b0 >= 194 /\ b0 <= 223 THEN
            IF ~IsCont(b1) THEN bad(1)
            ELSE [len |-> 2, cp |-> (b0 - 192) * 64 + (b1 - 128), ok |-> TRUE]
        ELSE IF b0 >= 224 /\ b0 <= 239 THEN
            IF ~SecondOk(b0, b1) THEN bad(1)
            ELSE IF ~IsCont(b2) THEN bad(2)
            ELSE [len |-> 3,
                  cp |-> (b0 - 224) * 4096 + (b1 - 128) * 64 + (b2 - 128),
                  ok |-> TRUE]
        ELSE IF b0 >= 240 /\ b0 <= 244 THEN
            IF ~SecondOk(b0, b1) THEN bad(1)
            ELSE IF ~IsCont(b2) THEN bad(2)
            ELSE IF ~IsCont(b3) THEN bad(3)
            ELSE [len |-> 4,
                  cp |-> (b0 - 240) * 262144 + (b1 - 128) * 4096
                         + (b2 - 128) * 64 + (b3 - 128),
                  ok |-> TRUE]
        ELSE bad(1)

\* Position i starts a chunk of the left-to-right decoding of v.  Every byte
\* of a chunk after its first is a continuation byte, so a position is inside
\* a chunk exactly when the nearest non-continuation byte before it, at most
\* 3 back, starts a chunk long enough to reach it.
IsStart(v, i) ==
    \/ ~IsCont(v[i])
    \/ ~\E d \in 1..3 :
            /\ i - d >= 1
            /\ ~IsCont(v[i - d])
            /\ \A e \in 1..(d - 1) : IsCont(v[i - e])
            /\ Chunk(v, i - d).len > d

\* String::from_utf8_lossy(v): the characters decoded, invalid parts replaced.
from_utf8_lossy(v) ==
    LET starts == SelectSeq([i \in 1..Len(v) |-> i], LAMBDA i : IsStart(v, i))
    IN  [k \in 1..Len(starts) |-> Chunk(v, starts[k]).cp]

\* A slip: validating with the lossy decoder, which never fails.
from_utf8_lossy_is_ok(v) == Len(from_utf8_lossy(v)) >= 0

\* std::str::from_utf8(v).is_ok(): every chunk decodes.
from_utf8_is_ok(v) == \A i \in 1..Len(v) : IsStart(v, i) => Chunk(v, i).ok

---------------------------------------------------------------------------
(* Strings *)

\* str::find: the 1-based position of the first occurrence, 0 when absent.
find(haystack, needle) ==
    LET hits == {p \in 1..(Len(haystack) - Len(needle) + 1) :
                    \A k \in 1..Len(needle) : haystack[p + k - 1] = needle[k]}
    IN  IF hits = {} THEN 0 ELSE Min(hits)

\* char::to_lowercase on the code points a scanned value can hold here:
\* ASCII and Latin-1 capitals move by 32, everything else has no lower case.
to_lowercase_char(c) ==
    IF c >= 65 /\ c <= 90 THEN c + 32
    ELSE IF c >= 192 /\ c <= 222 /\ c # 215 THEN c + 32
    ELSE c

to_lowercase(s) == [i \in 1..Len(s) |-> to_lowercase_char(s[i])]

\* str::replace from position i on: matches are taken left to right and do
\* not overlap.
RECURSIVE replace_from(_, _, _, _)
replace_from(s, i, from, to) ==
    LET p == find(SubSeq(s, i, Len(s)), from)
    IN  IF p = 0 THEN SubSeq(s, i, Len(s))
        ELSE SubSeq(s, i, i + p - 2) \o to
             \o replace_from(s, i + p - 1 + Len(from), from, to)

replace(s, from, to) == replace_from(s, 1, from, to)

normalise(encoding) ==
    replace(
        replace(
            replace(to_lowercase(encoding),
                    Str(<<"u","s","-","a","s","c","i","i">>),
                    Str(<<"a","s","c","i","i">>)),
            Str(<<"u","t","f","8">>),
            Str(<<"u","t","f","-","8">>)),
        Str(<<"s","h","i","f","t","-","j","i","s">>),
        Str(<<"s","h","i","f","t","_","j","i","s">>))

Contains(vec, item) == \E i \in 1..Len(vec) : vec[i] = item

\* A slip: the item pushed without looking.
push_always(vec, item) == Append(vec, item)

\* A slip: the new item put in front of the older ones.
push_front_if_not_contains(vec, item) ==
    IF ~Contains(vec, item) THEN <<item>> \o vec ELSE vec

push_if_not_contains(vec, item) ==
    IF ~Contains(vec, item) THEN Append(vec, item) ELSE vec

s_utf_16 == Str(<<"u","t","f","-","1","6">>)
s_utf_16le == Str(<<"u","t","f","-","1","6","l","e">>)
s_utf_16be == Str(<<"u","t","f","-","1","6","b","e">>)
s_ucs_4le == Str(<<"u","c","s","-","4","l","e">>)
s_ucs_4be == Str(<<"u","c","s","-","4","b","e">>)
s_utf_8 == Str(<<"u","t","f","-","8">>)
s_ebcdic == Str(<<"e","b","c","d","i","c">>)

\* A slip: the byte order the classifier found is dropped.
endianify_dropped(encoding, descriptor) == encoding

endianify(encoding, descriptor) ==
    LET order == unwrap_or(descriptor, ASCII_8BIT).order
    IN  IF encoding = s_utf_16 THEN
            IF order = "LittleEndian" THEN s_utf_16le
            ELSE IF order = "BigEndian" THEN s_utf_16be
            ELSE encoding
        ELSE encoding

IsQuote(c) == c = Chr("\"") \/ c = Chr("'")

\* .skip_while(quote): the text from its first non-quote character on.
skip_while_quote(s) ==
    LET keep == {j \in 1..Len(s) : ~IsQuote(s[j])}
    IN  IF keep = {} THEN <<>> ELSE SubSeq(s, Min(keep), Len(s))

\* .take_while(not quote): the text before its first quote character.
take_while_not_quote(s) ==
    LET stop == {j \in 1..Len(s) : IsQuote(s[j])}
    IN  IF stop = {} THEN s ELSE SubSeq(s, 1, Min(stop) - 1)

\* let mut index = match *order { ... }
StartIndex(d) ==
    IF d.order \in {"NotApplicable", "LittleEndian"} THEN 0
    ELSE IF d.order = "BigEndian" THEN (d.width \div 8) - 1
    ELSE IF d.order = "Unusual2143" THEN 2
    ELSE 1

\* while index < haystack.len() { push(haystack[index]); index += chunk_size }
Sample(haystack, index, chunk_size) ==
    LET count == IF index < Len(haystack)
                 THEN (Len(haystack) - index + chunk_size - 1) \div chunk_size
                 ELSE 0
    IN  [k \in 1..count |-> haystack[index + (k - 1) * chunk_size + 1]]

search(needle, haystack, descriptor) ==
    LET d == unwrap_or(descriptor, ASCII_8BIT)
        chunk_size == d.width \div 8
        ascii_bytes == Sample(haystack, StartIndex(d), chunk_size)
        ascii_haystack == from_utf8_lossy(ascii_bytes)
        p == find(ascii_haystack, needle)
    IN  IF p = 0 THEN None
        ELSE Some(take_while_not_quote(skip_while_quote(
                 SubSeq(ascii_haystack, p + Len(needle), Len(ascii_haystack)))))

s_encoding == Str(<<"e","n","c","o","d","i","n","g","=">>)
s_charset == Str(<<"c","h","a","r","s","e","t","=">>)

\* The name the descriptor contributes: match possible_encoding { ... }
bom_name(descriptor) ==
    IF descriptor = Some(UCS_4_LE) THEN Some(s_ucs_4le)
    ELSE IF descriptor = Some(UCS_4_BE) THEN Some(s_ucs_4be)
    ELSE IF descriptor = Some(UTF_16_LE) THEN Some(s_utf_16le)
    ELSE IF descriptor = Some(UTF_16_BE) THEN Some(s_utf_16be)
    ELSE IF descriptor # None /\ descriptor[1].flavour = "UTF"
            /\ descriptor[1].width = EightBit THEN Some(s_utf_8)
    ELSE IF descriptor = Some(EBCDIC) THEN Some(s_ebcdic)
    ELSE None

---------------------------------------------------------------------------
(* The inputs: byte streams and hints *)

\* <?xml version="1.0" encoding="ISO-8859-1"?><channel><title>Example</title></channel>
XmlIso ==
    Str(
        <<"<","?","x","m","l"," ","v","e","r","s","i","o","n","=","\"","1",
          ".","0","\""," ","e","n","c","o","d","i","n","g","=","\"","I","S",
          "O","-","8","8","5","9","-","1","\"","?",">","<","c","h","a","n",
          "n","e","l",">","<","t","i","t","l","e",">","E","x","a","m","p",
          "l","e","<","/","t","i","t","l","e",">","<","/","c","h","a","n",
          "n","e","l",">">>)

\* <?xml version="1.0" encoding="UTF-16"?><a/>
XmlUtf16 ==
    Str(
        <<"<","?","x","m","l"," ","v","e","r","s","i","o","n","=","\"","1",
          ".","0","\""," ","e","n","c","o","d","i","n","g","=","\"","U","T",
          "F","-","1","6","\"","?",">","<","a","/",">">>)

\* <?xml encoding="UTF-16"?>
XmlShort ==
    Str(
        <<"<","?","x","m","l"," ","e","n","c","o","d","i","n","g","=","\"",
          "U","T","F","-","1","6","\"","?",">">>)

\* <meta charset='Shift-JIS'>
MetaSjis ==
    Str(
        <<"<","m","e","t","a"," ","c","h","a","r","s","e","t","=","'","S",
          "h","i","f","t","-","J","I","S","'",">">>)

\* <title>Example</title>
Plain ==
    Str(
        <<"<","t","i","t","l","e",">","E","x","a","m","p","l","e","<","/",
          "t","i","t","l","e",">">>)

\* <a encoding="utf8
OpenUtf8 ==
    Str(
        <<"<","a"," ","e","n","c","o","d","i","n","g","=","\"","u","t","f",
          "8">>)

\* abcdencoding=x
OpenX ==
    Str(
        <<"a","b","c","d","e","n","c","o","d","i","n","g","=","x">>)

\* <a encoding="UTF-16
OpenUtf16 ==
    Str(
        <<"<","a"," ","e","n","c","o","d","i","n","g","=","\"","U","T","F",
          "-","1","6">>)

\* An ASCII text in a 16-bit or 32-bit encoding: each character's code unit.
Utf16LE(text) ==
    [i \in 1..(2 * Len(text)) |->
        IF (i - 1) % 2 = 0 THEN text[((i - 1) \div 2) + 1] ELSE 0]

Utf16BE(text) ==
    [i \in 1..(2 * Len(text)) |->
        IF (i - 1) % 2 = 1 THEN text[((i - 1) \div 2) + 1] ELSE 0]

\* at: where in its 4 bytes a unit holds its low byte, counted from 0
\* (big-endian 3, little-endian 0, order 2143: 2, order 3412: 1).
Ucs4(text, at) ==
    [i \in 1..(4 * Len(text)) |->
        IF (i - 1) % 4 = at THEN text[((i - 1) \div 4) + 1] ELSE 0]

Fill(b, n) == [i \in 1..n |-> b]

\* The leading byte patterns the classifier knows, and near misses.
Heads ==
    { <<0, 0, 254, 255>>, <<255, 254, 0, 0>>, <<0, 0, 255, 254>>,
      <<254, 255, 0, 0>>, <<254, 255, 0, 65>>, <<254, 255, 65, 0>>,
      <<255, 254, 65, 0>>, <<255, 254, 0, 65>>, <<239, 187, 191, 65>>,
      <<0, 0, 0, 60>>, <<60, 0, 0, 0>>, <<0, 0, 60, 0>>, <<0, 60, 0, 0>>,
      <<0, 60, 0, 63>>, <<60, 0, 63, 0>>, <<60, 63, 120, 109>>,
      <<76, 111, 167, 148>>, <<60, 63, 120, 108>>, <<0, 0, 0, 0>> }

\* Streams shorter than the first read asks for.
ShortStreams ==
    { <<>>, <<60>>, <<255, 254>>, <<254, 255>>, <<239, 187, 191>>,
      <<97, 98>>, <<60, 0, 63>>, <<0, 0, 254>> }

\* Streams that carry a declaration, in the encodings the scanner handles.
DeclaredStreams ==
    { XmlIso,
      <<255, 254>> \o Utf16LE(XmlUtf16),
      <<254, 255>> \o Utf16BE(XmlUtf16),
      Utf16LE(XmlUtf16),
      Utf16BE(XmlUtf16),
      <<239, 187, 191>> \o MetaSjis,
      <<0, 0, 254, 255>> \o Ucs4(XmlShort, 3),
      <<0, 0, 255, 254>> \o Ucs4(XmlShort, 2),
      Ucs4(XmlShort, 0),
      Ucs4(XmlShort, 1),
      <<76, 111, 167, 148>> \o MetaSjis,
      OpenUtf8,
      OpenX,
      <<255, 254>> \o Utf16LE(OpenUtf16) }

\* Valid UTF-8 with no byte-order mark, no known leading pattern and no
\* declaration; e-acute is C3 A9, the euro sign E2 82 AC.  Some hold a
\* multi-byte character across byte offset 4 or byte offset 516.
CleanStreams ==
    { Str(<<"a","b","c","d","e","f","g","h">>),
      Str(<<"a","b","c">>) \o <<195, 169>> \o Str(<<"d","e">>),
      Str(<<"a","b","c","d">>) \o <<195, 169>> \o Str(<<"e">>),
      Str(<<"a","b">>) \o <<226, 130, 172>> \o Str(<<"c","d">>),
      Fill(97, 514) \o <<195, 169>> \o Str(<<"z">>),
      Fill(97, 515) \o <<195, 169>> \o Str(<<"z">>) }

\* s with the byte at position i replaced by b.
Poke(s, i, b) == [s EXCEPT ![i] = b]

\* Replacement bytes: one no UTF-8 text holds, a continuation byte and an
\* ASCII letter.
PokeBytes == {255, 128, 101}

\* Positions poked: those within MaxPokeEdge of either end of the stream.
PokeAt(s) == {i \in 1..Len(s) : i <= MaxPokeEdge \/ i > Len(s) - MaxPokeEdge}

PokedStreams ==
    UNION {{Poke(s, i, b) : i \in PokeAt(s), b \in PokeBytes} : s \in CleanStreams}

Hints ==
    { Str(<<"U","T","F","-","1","6">>),
      Str(<<"I","S","O","-","8","8","5","9","-","1">>),
      Str(<<"u","t","f","8">>) }

HintedStreams ==
    { XmlIso, Plain, <<239, 187, 191>> \o MetaSjis,
      <<255, 254>> \o Utf16LE(XmlUtf16), <<254, 255>> \o Utf16BE(XmlUtf16),
      <<255, 254, 65, 0>>, <<0, 0, 254, 255>>, <<60, 0, 63>>, <<255, 254>> }

Inputs ==
    {<<s, None>> :
        s \in Heads \cup ShortStreams \cup DeclaredStreams \cup CleanStreams
              \cup PokedStreams \cup {Plain}}
    \cup {<<s, Some(h)>> : s \in HintedStreams, h \in Hints}

---------------------------------------------------------------------------
(* detect *)

BufLen == 512

NoResult == [kind |-> "None", list |-> <<>>]
Ok(list) == [kind |-> "Ok", list |-> list]
Err == [kind |-> "Err", list |-> <<>>]

ReadOk(n) == [ok |-> TRUE, n |-> n]
ReadErr == [ok |-> FALSE, n |-> 0]

\* What Read::read may return for a buffer of `want` bytes: 0 only at the end
\* of the stream, otherwise 1 up to what is there and fits.
ReadCounts(want) ==
    LET avail == Len(stream) - pos
        full == IF avail < want THEN avail ELSE want
    IN  IF full = 0 THEN {0}
        ELSE {n \in 1..full : full - n <= MaxShortfall}

\* A zeroed array of `size` bytes after read copied the next n bytes into it.
Filled(size, n) ==
    [i \in 1..size |-> IF i <= n THEN stream[pos + i] ELSE 0]

Init ==
    /\ \E input \in Inputs :
        /\ stream = input[1]
        /\ hint = input[2]
    /\ pos = 0
    /\ reads = <<>>
    /\ pc = "read_first"
    /\ first_four_bytes = Fill(0, 4)
    /\ possible_encoding = None
    /\ buf = Fill(0, BufLen)
    /\ declared = None
    /\ candidates = <<>>
    /\ result = NoResult
    /\ calls = 1
    /\ prev = NoResult

\* try!(reader.read(&mut first_four_bytes)), Ok(n); then the classifier.
ReadFirst ==
    /\ pc = "read_first"
    /\ \E n \in ReadCounts(4) :
        /\ first_four_bytes' = Filled(4, n)
        /\ pos' = pos + n
        /\ reads' = Append(reads, ReadOk(n))
    /\ possible_encoding' = detect_byte_order_mark(first_four_bytes')
    /\ pc' = "read_buf"
    /\ UNCHANGED <<stream, hint, buf, declared, candidates, result, calls, prev>>

\* try!(reader.read(&mut first_four_bytes)), Err(e): detect returns Err(e).
ReadFirstErr ==
    /\ pc = "read_first"
    /\ reads' = Append(reads, ReadErr)
    /\ result' = Err
    /\ pc' = "done"
    /\ UNCHANGED <<stream, hint, pos, first_four_bytes, possible_encoding, buf,
                   declared, candidates, calls, prev>>

\* try!(reader.read(&mut buf)), Ok(n).
ReadBuf ==
    /\ pc = "read_buf"
    /\ \E n \in ReadCounts(BufLen) :
        /\ buf' = Filled(BufLen, n)
        /\ pos' = pos + n
        /\ reads' = Append(reads, ReadOk(n))
    /\ pc' = "search"
    /\ UNCHANGED <<stream, hint, first_four_bytes, possible_encoding, declared,
                   candidates, result, calls, prev>>

\* A slip: the second read's failure swallowed, detect going on with the
\* zeroed buffer.
ReadBufErrSwallowed ==
    /\ pc = "read_buf"
    /\ reads' = Append(reads, ReadErr)
    /\ pc' = "search"
    /\ UNCHANGED <<stream, hint, pos, first_four_bytes, possible_encoding, buf,
                   declared, candidates, result, calls, prev>>

\* try!(reader.read(&mut buf)), Err(e): detect returns Err(e).
ReadBufErr ==
    /\ pc = "read_buf"
    /\ reads' = Append(reads, ReadErr)
    /\ result' = Err
    /\ pc' = "done"
    /\ UNCHANGED <<stream, hint, pos, first_four_bytes, possible_encoding, buf,
                   declared, candidates, calls, prev>>

\* search("encoding=", ..).or_else(|| search("charset=", ..))
\*     .map(normalise).map(|encoding| push_if_not_contains(.., endianify(..)))
SearchDeclaration ==
    /\ pc = "search"
    /\ LET first == search(s_encoding, buf, possible_encoding)
           found == IF first # None THEN first
                    ELSE search(s_charset, buf, possible_encoding)
       IN  /\ declared' = found
           /\ candidates' =
                IF found = None THEN candidates
                ELSE push_if_not_contains(
                         candidates,
                         endianify(normalise(found[1]), possible_encoding))
    /\ pc' = "hint"
    /\ UNCHANGED <<stream, hint, pos, reads, first_four_bytes, possible_encoding,
                   buf, result, calls, prev>>

\* hint.map(normalise).map(|encoding| push_if_not_contains(.., endianify(..)))
ConsiderHint ==
    /\ pc = "hint"
    /\ candidates' =
         IF hint = None THEN candidates
         ELSE push_if_not_contains(
                  candidates, endianify(normalise(hint[1]), possible_encoding))
    /\ pc' = "bom"
    /\ UNCHANGED <<stream, hint, pos, reads, first_four_bytes, possible_encoding,
                   buf, declared, result, calls, prev>>

\* match possible_encoding { .. }.map(|encoding| push_if_not_contains(..))
IncludeBom ==
    /\ pc = "bom"
    /\ candidates' =
         IF bom_name(possible_encoding) = None THEN candidates
         ELSE push_if_not_contains(candidates, bom_name(possible_encoding)[1])
    /\ pc' = "fallback"
    /\ UNCHANGED <<stream, hint, pos, reads, first_four_bytes, possible_encoding,
                   buf, declared, result, calls, prev>>

\* if candidates.is_empty() && from_utf8(&buf).is_ok() { push("utf-8") }
\* return Ok(candidates)
Utf8Fallback ==
    /\ pc = "fallback"
    /\ candidates' =
         IF candidates = <<>> /\ from_utf8_is_ok(buf)
         THEN Append(candidates, s_utf_8) ELSE candidates
    /\ result' = Ok(candidates')
    /\ pc' = "done"
    /\ UNCHANGED <<stream, hint, pos, reads, first_four_bytes, possible_encoding,
                   buf, declared, calls, prev>>

\* The caller invokes detect a second time, on a source that holds the same
\* bytes and with the same hint: every local of detect starts afresh.
Reinvoke ==
    /\ pc = "done"
    /\ calls = 1
    /\ calls' = 2
    /\ prev' = result
    /\ pos' = 0
    /\ reads' = <<>>
    /\ pc' = "read_first"
    /\ first_four_bytes' = Fill(0, 4)
    /\ possible_encoding' = None
    /\ buf' = Fill(0, BufLen)
    /\ declared' = None
    /\ candidates' = <<>>
    /\ result' = NoResult
    /\ UNCHANGED <<stream, hint>>

Next ==
    \/ ReadFirst
    \/ ReadFirstErr
    \/ ReadBuf
    \/ ReadBufErr
    \/ SearchDeclaration
    \/ ConsiderHint
    \/ IncludeBom
    \/ Utf8Fallback
    \/ Reinvoke

Spec == Init /\ [][Next]_vars

---------------------------------------------------------------------------
(* What the properties speak of *)

Done == pc = "done"
Returned == Done /\ result.kind = "Ok"

Smaller(a, b) == IF a < b THEN a ELSE b

\* Both reads succeeded and each delivered all it could: what a File or a
\* Cursor does.
FullDelivery ==
    /\ Len(reads) = 2
    /\ reads[1].ok /\ reads[1].n = Smaller(4, Len(stream))
    /\ reads[2].ok /\ reads[2].n = Smaller(BufLen, Len(stream) - reads[1].n)

\* Well-formed UTF-8 by the Unicode standard's table 3-7: the length of the
\* well-formed byte sequence that starts at position i, 0 when there is none.
InRange(b, lo, hi) == b >= lo /\ b <= hi

WellFormedAt(v, i) ==
    LET b0 == v[i]
        b1 == IF i + 1 <= Len(v) THEN v[i + 1] ELSE 0
        b2 == IF i + 2 <= Len(v) THEN v[i + 2] ELSE 0
        b3 == IF i + 3 <= Len(v) THEN v[i + 3] ELSE 0
        t(b) == InRange(b, 128, 191)
    IN  CASE InRange(b0, 0, 127) -> 1
          [] InRange(b0, 194, 223) /\ t(b1) -> 2
          [] b0 = 224 /\ InRange(b1, 160, 191) /\ t(b2) -> 3
          [] InRange(b0, 225, 236) /\ t(b1) /\ t(b2) -> 3
          [] b0 = 237 /\ InRange(b1, 128, 159) /\ t(b2) -> 3
          [] InRange(b0, 238, 239) /\ t(b1) /\ t(b2) -> 3
          [] b0 = 240 /\ InRange(b1, 144, 191) /\ t(b2) /\ t(b3) -> 4
          [] InRange(b0, 241, 243) /\ t(b1) /\ t(b2) /\ t(b3) -> 4
          [] b0 = 244 /\ InRange(b1, 128, 143) /\ t(b2) /\ t(b3) -> 4
          [] OTHER -> 0

\* v is a concatenation of well-formed sequences: every byte starts one or is
\* a trailing byte of the one that starts up to 3 bytes before it.
WellFormedUtf8(v) ==
    \A i \in 1..Len(v) :
        \/ WellFormedAt(v, i) > 0
        \/ /\ InRange(v[i], 128, 191)
           /\ \E d \in 1..3 : i - d >= 1 /\ WellFormedAt(v, i - d) > d

\* The stream, read as bytes, holds neither needle.
NoDeclaration(v) == find(v, s_encoding) = 0 /\ find(v, s_charset) = 0

\* The stream's first four bytes match no rule of the classifier.
NoKnownHead(v) ==
    Len(v) >= 4 /\ detect_byte_order_mark(SubSeq(v, 1, 4)) = None

\* The bytes the second read obtained, zero-padded to the buffer's size.
Window ==
    [i \in 1..BufLen |->
        IF i <= reads[2].n THEN stream[reads[1].n + i] ELSE 0]

\* The first position of x in list; x is in it.
IndexOf(list, x) == Min({i \in 1..Len(list) : list[i] = x})

\* The names the declaration, the hint and the descriptor stand for.
DeclaredName == endianify(normalise(declared[1]), possible_encoding)
HintName == endianify(normalise(hint[1]), possible_encoding)
BomName == bom_name(possible_encoding)

---------------------------------------------------------------------------
(* C1 *)

\* C1: when detect returns Ok, no two positions of the returned list hold the
\* same string.
C1_NoRepeatedEntries ==
    Returned =>
        \A i, j \in 1..Len(result.list) :
            i # j => result.list[i] # result.list[j]

\* The declaration, the hint and the byte-order mark all name the same
\* encoding, and the list holds it once.
C1_Witness ==
    /\ Returned
    /\ declared # None /\ hint # None /\ BomName # None
    /\ DeclaredName = HintName /\ BomName = Some(HintName)
    /\ result.list = <<HintName>>

---------------------------------------------------------------------------
(* C2 *)

\* C2: in the returned list the declaration's name comes before the hint's
\* when the two differ, and a BOM-derived name that is in the list and differs
\* from both (from each of them that is present) comes after them.
C2_PriorityOrder ==
    Returned =>
        /\ (declared # None /\ hint # None /\ DeclaredName # HintName) =>
                IndexOf(result.list, DeclaredName) < IndexOf(result.list, HintName)
        /\ ( /\ BomName # None /\ Contains(result.list, BomName[1])
             /\ declared # None => DeclaredName # BomName[1]
             /\ hint # None => HintName # BomName[1] ) =>
                /\ declared # None =>
                      IndexOf(result.list, DeclaredName)
                        < IndexOf(result.list, BomName[1])
                /\ hint # None =>
                      IndexOf(result.list, HintName)
                        < IndexOf(result.list, BomName[1])

\* A declaration, a hint and a byte-order mark that name three encodings.
C2_Witness ==
    /\ Returned
    /\ declared # None /\ hint # None /\ BomName # None
    /\ result.list = <<DeclaredName, HintName, BomName[1]>>
    /\ DeclaredName # HintName
    /\ BomName[1] # DeclaredName /\ BomName[1] # HintName

---------------------------------------------------------------------------
(* C3 *)

---------------------------------------------------------------------------
(* C4 *)

\* C4: a stream that is valid UTF-8, whose first four bytes match no rule of
\* the classifier, that holds no declaration, read in full and with no hint,
\* yields exactly ["utf-8"], wherever its multi-byte characters lie.
C4_Utf8Fallback ==
    ( /\ Done /\ FullDelivery /\ hint = None
      /\ WellFormedUtf8(stream) /\ NoKnownHead(stream) /\ NoDeclaration(stream) )
    => result = Ok(<<s_utf_8>>)

---------------------------------------------------------------------------
(* C5 *)

\* The stream is a clean stream with one byte replaced, and the replacement
\* made it invalid UTF-8.
Spoiled == stream \in PokedStreams /\ ~WellFormedUtf8(stream)

\* C5 as stated: one byte replaced so that the stream is no longer valid UTF-8
\* makes detect return [], wherever the byte is.
C5_InvalidByteAnywhere ==
    (Done /\ FullDelivery /\ hint = None /\ Spoiled) => result = Ok(<<>>)

\* C5, amended: with one byte replaced so that the stream is no longer valid
\* UTF-8, and still no descriptor, declaration or hint, detect returns []
\* exactly when the bytes its second read obtained, zero-padded to 512, are
\* not valid UTF-8 by themselves, and ["utf-8"] otherwise: a byte replaced
\* among the first four bytes, or after the bytes read, goes unnoticed.
C5_InvalidByteInWindow ==
    ( /\ Returned /\ hint = None /\ Spoiled
      /\ possible_encoding = None /\ declared = None )
    => result.list = IF WellFormedUtf8(Window) THEN <<s_utf_8>> ELSE <<>>

\* The replaced byte is among the bytes scanned, and detect returned [].
C5_Witness ==
    /\ Returned /\ FullDelivery /\ hint = None /\ Spoiled
    /\ possible_encoding = None /\ declared = None
    /\ ~WellFormedUtf8(Window)
    /\ result.list = <<>>

---------------------------------------------------------------------------
(* C6 *)

\* C6: two invocations of detect on the same bytes with the same hint return
\* the same list, however the source delivers the bytes to the reads.
C6_Determinism ==
    (calls = 2 /\ Returned /\ prev.kind = "Ok") => result.list = prev.list

---------------------------------------------------------------------------
(* C7 *)

\* encoding="UTF-16"
DeclUtf16 ==
    Str(<<"e","n","c","o","d","i","n","g","=","\"","U","T","F","-","1","6","\"">>)

\* v holds w as a run of consecutive bytes.
Holds(v, w) == find(v, w) # 0

\* C7: with no hint, a UTF-16 byte-order mark followed by a non-zero code
\* unit, and encoding="UTF-16" in that encoding among the bytes scanned,
\* detect returns exactly ["utf-16le"], resp. ["utf-16be"]; and the bare name
\* "utf-16" is in no returned list when the descriptor's byte order is
\* LittleEndian or BigEndian.
C7_EndianBackfill ==
    Returned =>
        LET b == first_four_bytes
            unit == b[3] > 0 \/ b[4] > 0
        IN  /\ ( /\ hint = None /\ b[1] = 255 /\ b[2] = 254 /\ unit
                 /\ Holds(buf, Utf16LE(DeclUtf16)) )
                => result.list = <<s_utf_16le>>
            /\ ( /\ hint = None /\ b[1] = 254 /\ b[2] = 255 /\ unit
                 /\ Holds(buf, Utf16BE(DeclUtf16)) )
                => result.list = <<s_utf_16be>>
            /\ ( /\ possible_encoding # None
                 /\ possible_encoding[1].order \in {"LittleEndian", "BigEndian"} )
                => ~Contains(result.list, s_utf_16)

\* The scanner extracted UTF-16 from a little-endian UTF-16 stream, and the
\* list is ["utf-16le"].
C7_Witness ==
    /\ Returned /\ hint = None
    /\ possible_encoding = Some(UTF_16_LE)
    /\ declared = Some(Str(<<"U","T","F","-","1","6">>))
    /\ Holds(buf, Utf16LE(DeclUtf16))
    /\ result.list = <<s_utf_16le>>

---------------------------------------------------------------------------
(* C8 *)

\* C8: when the first read obtains fewer than 4 bytes, detect goes on with an
\* absent descriptor.
C8_ShortFirstRead ==
    (Len(reads) >= 1 /\ reads[1].ok /\ reads[1].n < 4)
        => possible_encoding = None

---------------------------------------------------------------------------
(* C9 *)

\* What the two searches give on haystack h.
Scan(h) ==
    IF search(s_encoding, h, possible_encoding) # None
    THEN search(s_encoding, h, possible_encoding)
    ELSE search(s_charset, h, possible_encoding)

\* C9: when the second read obtains n < 512 bytes, the value the scanner
\* extracts is the one those n bytes give: no character of it comes from the
\* unread, zero-filled tail of the buffer.
C9_OnlyObtainedBytesScanned ==
    ( /\ pc \in {"hint", "bom", "fallback", "done"}
      /\ Len(reads) = 2 /\ reads[2].ok /\ reads[2].n < BufLen )
    => declared = Scan(SubSeq(buf, 1, reads[2].n))

---------------------------------------------------------------------------
(* C10 *)

\* C10: every descriptor detect works with, the 8-bit default included, has
\* the NotApplicable order only with the 8-bit width and an unusual order only
\* with the 32-bit width, so the scanner's starting index is below its
\* chunk size.
C10_DescriptorInvariant ==
    LET d == unwrap_or(possible_encoding, ASCII_8BIT)
    IN  /\ d.order = "NotApplicable" => d.width = EightBit
        /\ d.order \in {"Unusual2143", "Unusual3412"} => d.width = ThirtyTwoBit
        /\ StartIndex(d) < d.width \div 8

\* The scanner ran with a descriptor of an unusual order.
C10_Witness ==
    /\ pc = "hint"
    /\ possible_encoding # None
    /\ possible_encoding[1].order \in {"Unusual2143", "Unusual3412"}
    /\ declared # None

====
